---------------------------- MODULE Spec2Model ----------------------------
(***************************************************************************)
(* Model of the simulation core of snap.pong (src/2.0.py): the main loop   *)
(* PingPongGame.run and the handlers it calls each frame.                  *)
(*                                                                         *)
(* Numbers.  Rectangle coordinates are pygame.Rect integers (pixels); a    *)
(* float assigned to a Rect coordinate is truncated toward zero.  The ball *)
(* velocity is a Python number that becomes a float after the speed clamp  *)
(* or a paddle hit; it is kept here in fixed point, in units of 1/SCALE    *)
(* pixel per frame, every float operation rounding toward zero.            *)
(* Rendering state (fonts, animation_counter, the display) is left out.    *)
(***************************************************************************)
EXTENDS Integers, Naturals, Sequences, FiniteSets, TLC

(***************************************************************************)
(* GameConfig                                                              *)
(***************************************************************************)
WINDOW_WIDTH == 800
WINDOW_HEIGHT == 500
PADDLE_WIDTH == 10
PADDLE_HEIGHT == 80
PADDLE_SPEED == 10
LEFT_PADDLE_X == 30
RIGHT_PADDLE_X == WINDOW_WIDTH - 40
BALL_SIZE == 15
BALL_INITIAL_SPEED == 8
MAX_BALL_SPEED == 15
POWERUP_SIZE == 15
POWERUP_DURATION == 180
POWERUP_SPEED == 2
MIN_WIN_SCORE == 1
MAX_WIN_SCORE == 20
DEFAULT_WIN_SCORE == 5
DEFAULT_DIFFICULTY == 2

AI_DIFFICULTY == (1 :> 3) @@ (2 :> 4) @@ (3 :> 6)

PowerUpType == {"SPEED_BOOST", "SLOW_AI", "BIG_PADDLE", "FAST_BALL"}
GameState == {"START_SCREEN", "PLAYING", "PAUSED", "GAME_OVER"}
Side == {"left", "right"}

(***************************************************************************)
(* Bounds of the exploration and fixed-point resolution                    *)
(***************************************************************************)
SCALE == 1000

(* frames simulated with the paddles steered (Spec) *)
MaxTicks == 50
(* frames simulated of a two-player game with the paddles steered *)
MaxTwoPlayerTicks == 3
(* frames simulated of matches nobody steers (SpecMatch) *)
MaxMatchTicks == 52
(* frames simulated with power-ups spawning frame after frame (SpecPower) *)
MaxPowerTicks == 4
(* frames simulated to see an effect run out (SpecLong) *)
MaxLongTicks == 183
(* frames of a two-player rally in which both players take the pace off the
   ball, and of the same players' game against the AI (SpecRally) *)
MaxRallyTicks == 760
MaxSoloTicks == 3
(* frames up to the AI's first return of a ball served to the right (SpecBounce) *)
MaxBounceTicks == 46
(* frames in which the AI follows the first serve to a wall (SpecAi) *)
MaxAiTicks == 40
(* frames played after the start screen's selections (SpecMenu) *)
MaxMenuTicks == 1
(* frames of a series of points, enough for three of them (SpecSeries) *)
MaxSeriesTicks == 150
(* frames of a rally in which both players drive the ball, up to the frame
   after the fourth return (SpecDrive) *)
MaxDriveTicks == 314

(***************************************************************************)
(* Arithmetic helpers                                                      *)
(***************************************************************************)
Abs(n) == IF n < 0 THEN -n ELSE n
Min(a, b) == IF a < b THEN a ELSE b
Max(a, b) == IF a > b THEN a ELSE b

(* int(a / b) for b > 0: Python's int() and pygame's Rect setters drop the
   fraction, rounding toward zero *)
TruncDiv(a, b) == IF a >= 0 THEN a \div b ELSE -((-a) \div b)

(* least r with r * r >= n, by bisection on lo < r <= hi *)
RECURSIVE SqrtSearch(_, _, _)
SqrtSearch(n, lo, hi) ==
    IF hi - lo <= 1 THEN hi
    ELSE LET mid == (lo + hi) \div 2
         IN IF mid * mid >= n THEN SqrtSearch(n, lo, mid)
            ELSE SqrtSearch(n, mid, hi)

SqrtCeil(n) == IF n = 0 THEN 0 ELSE SqrtSearch(n, 0, 46340)

(***************************************************************************)
(* pygame.Rect                                                             *)
(***************************************************************************)
Rect(x, y, w, h) == [x |-> x, y |-> y, w |-> w, h |-> h]

colliderect(a, b) ==
    /\ a.x < b.x + b.w
    /\ a.y < b.y + b.h
    /\ a.x + a.w > b.x
    /\ a.y + a.h > b.y

BallRect(bx, by) == Rect(bx, by, BALL_SIZE, BALL_SIZE)
LeftRect(p) == Rect(LEFT_PADDLE_X, p.y, PADDLE_WIDTH, p.height)
RightRect(p) == Rect(RIGHT_PADDLE_X, p.y, PADDLE_WIDTH, p.height)
PowerUpRect(p) == Rect(p.x, p.y, POWERUP_SIZE, POWERUP_SIZE)


(***************************************************************************)
(* State of PingPongGame and of the run loop                               *)
(***************************************************************************)
VARIABLES
    state,              \* self.state
    running,            \* run's local: the value handle_events returned
    pc,                 \* the statement of run's loop body that executes next
    ticks,              \* number of loop iterations that entered the PLAYING branch
    left_paddle,        \* [y, height] of self.left_paddle (x and width never change)
    right_paddle,       \* [y, height] of self.right_paddle
    ball,               \* [x, y] of self.ball (top-left corner, size BALL_SIZE)
    ball_speed_x,       \* self.ball_speed_x, in 1/SCALE pixel
    ball_speed_y,       \* self.ball_speed_y, in 1/SCALE pixel
    left_score, right_score,
    rally_count, longest_rally, left_rallies_won, right_rallies_won,
    ai_speed, current_difficulty, is_two_player, win_score,
    powerups,           \* self.powerups: sequence of [x, y, type, collected]
    active_powerups,    \* self.active_powerups: side -> type -> frames left, 0 = no entry
    activated_at,       \* history: side -> type -> tick of the last activation, 0 = none
    frame               \* history: what the handlers of the current frame did, and
                        \* the paddle that hit the ball last in the current rally

config == <<ai_speed, current_difficulty, is_two_player, win_score>>
stats == <<left_score, right_score, rally_count, longest_rally,
           left_rallies_won, right_rallies_won>>
paddles == <<left_paddle, right_paddle>>
ballvars == <<ball, ball_speed_x, ball_speed_y>>
powervars == <<powerups, active_powerups, activated_at>>
vars == <<state, running, pc, ticks, left_paddle, right_paddle, ball,
          ball_speed_x, ball_speed_y, left_score, right_score, rally_count,
          longest_rally, left_rallies_won, right_rallies_won, ai_speed,
          current_difficulty, is_two_player, win_score, powerups,
          active_powerups, activated_at, frame>>

Signs == {-1, 1}
NoEffects == [s \in Side |-> [t \in PowerUpType |-> 0]]
NoFrame == [wall |-> "none", left_collision |-> FALSE, right_collision |-> FALSE,
            scored |-> <<>>, collected |-> <<>>, ai_step |-> 0, moved |-> FALSE,
            last_hit |-> "none"]

(* _create_left_paddle / _create_right_paddle *)
CreatePaddle == [y |-> WINDOW_HEIGHT \div 2 - PADDLE_HEIGHT \div 2,
                 height |-> PADDLE_HEIGHT]

(* Rect.center = (WINDOW_WIDTH // 2, WINDOW_HEIGHT // 2) *)
CentredBall == [x |-> WINDOW_WIDTH \div 2 - BALL_SIZE \div 2,
                y |-> WINDOW_HEIGHT \div 2 - BALL_SIZE \div 2]

(* a serve at the speed cap *)
Mut_ServeSpeed(sign) == sign * MAX_BALL_SPEED * SCALE

(* random.choice([-BALL_INITIAL_SPEED, BALL_INITIAL_SPEED]), the sign drawn *)
ServeSpeed(sign) == sign * BALL_INITIAL_SPEED * SCALE

(* PingPongGame.__init__ *)
Init ==
    /\ state = "START_SCREEN"
    /\ running = TRUE
    /\ pc = "handle_events"
    /\ ticks = 0
    /\ left_paddle = CreatePaddle
    /\ right_paddle = CreatePaddle
    /\ ball = [x |-> WINDOW_WIDTH \div 2, y |-> WINDOW_HEIGHT \div 2]
    /\ \E sx \in Signs : ball_speed_x = ServeSpeed(sx)
    /\ \E sy \in Signs : ball_speed_y = ServeSpeed(sy)
    /\ left_score = 0
    /\ right_score = 0
    /\ ai_speed = AI_DIFFICULTY[DEFAULT_DIFFICULTY]
    /\ current_difficulty = DEFAULT_DIFFICULTY
    /\ is_two_player = FALSE
    /\ win_score = DEFAULT_WIN_SCORE
    /\ powerups = <<>>
    /\ active_powerups = NoEffects
    /\ activated_at = NoEffects
    /\ rally_count = 0
    /\ longest_rally = 0
    /\ left_rallies_won = 0
    /\ right_rallies_won = 0
    /\ frame = NoFrame

(***************************************************************************)
(* reset_ball / reset_game                                                 *)
(***************************************************************************)
(* a reset that forgets self.active_powerups.clear() *)
Mut_reset_game(sx, sy) ==
    /\ left_score' = 0
    /\ right_score' = 0
    /\ rally_count' = 0
    /\ longest_rally' = 0
    /\ left_rallies_won' = 0
    /\ right_rallies_won' = 0
    /\ powerups' = <<>>
    /\ UNCHANGED <<active_powerups, activated_at>>
    /\ ball' = CentredBall
    /\ ball_speed_x' = ServeSpeed(sx)
    /\ ball_speed_y' = ServeSpeed(sy)
    /\ state' = "PLAYING"

reset_game(sx, sy) ==
    /\ left_score' = 0
    /\ right_score' = 0
    /\ rally_count' = 0
    /\ longest_rally' = 0
    /\ left_rallies_won' = 0
    /\ right_rallies_won' = 0
    /\ powerups' = <<>>
    /\ active_powerups' = NoEffects
    /\ activated_at' = NoEffects
    /\ ball' = CentredBall
    /\ ball_speed_x' = ServeSpeed(sx)
    /\ ball_speed_y' = ServeSpeed(sy)
    /\ state' = "PLAYING"

(***************************************************************************)
(* The loop of run()                                                       *)
(***************************************************************************)
(* a loop that keeps simulating while the game is paused *)
Mut_AfterEvents(r, st, maxT, maxT2) ==
    /\ running' = r
    /\ IF st \in {"PLAYING", "PAUSED"}
       THEN /\ ticks < (IF is_two_player THEN maxT2 ELSE maxT)
            /\ ticks' = ticks + 1
            /\ pc' = "move_player"
       ELSE /\ ticks' = ticks
            /\ pc' = IF r THEN "handle_events" ELSE "exit"

(* what run does once handle_events has returned r, the phase being st:
   the PLAYING branch is entered whatever r is; otherwise the iteration
   ends and the while condition is tested *)
AfterEvents(r, st, maxT, maxT2) ==
    /\ running' = r
    /\ IF st = "PLAYING"
       THEN /\ ticks < (IF is_two_player THEN maxT2 ELSE maxT)
            /\ ticks' = ticks + 1
            /\ pc' = "move_player"
       ELSE /\ ticks' = ticks
            /\ pc' = IF r THEN "handle_events" ELSE "exit"

(* a resume that lands on the start screen *)
Mut_SpaceTarget(st) ==
    CASE st = "START_SCREEN" -> "PLAYING"
      [] st = "GAME_OVER" -> "PLAYING"
      [] st = "PLAYING" -> "PAUSED"
      [] st = "PAUSED" -> "START_SCREEN"

(* the effect of K_SPACE in phase st *)
SpaceTarget(st) ==
    CASE st = "START_SCREEN" -> "PLAYING"
      [] st = "GAME_OVER" -> "PLAYING"
      [] st = "PLAYING" -> "PAUSED"
      [] st = "PAUSED" -> "PLAYING"

SpaceResets(st) == st = "START_SCREEN" \/ st = "GAME_OVER"

(* an increment without the upper limit *)
Mut_IncrementWinScore(w) == w + 1

(* min(win_score + 1, 20) and max(win_score - 1, 1) *)
IncrementWinScore(w) == Min(w + 1, MAX_WIN_SCORE)
(* a target that may be lowered to 0 *)
Mut_DecrementWinScore(w) == w - 1
DecrementWinScore(w) == Max(w - 1, MIN_WIN_SCORE)

(* one pygame.QUIT event, or a KEYDOWN of K_ESCAPE: handle_events returns
   False at once, the rest of the queue is not looked at *)
QuitEvent(maxT, maxT2) ==
    /\ pc = "handle_events"
    /\ AfterEvents(FALSE, state, maxT, maxT2)
    /\ UNCHANGED <<state, paddles, ballvars, stats, config, powervars, frame>>

(* one KEYDOWN of K_SPACE taken from the queue *)
SpaceKey ==
    /\ pc = "handle_events"
    /\ IF SpaceResets(state)
       THEN \E sx \in Signs, sy \in Signs : reset_game(sx, sy)
       ELSE /\ state' = SpaceTarget(state)
            /\ UNCHANGED <<ballvars, stats, powervars>>
    /\ UNCHANGED <<running, pc, ticks, paddles, config, frame>>

(* a menu that is also open on the game-over screen *)
Mut_MenuOpen(st) == st \in {"START_SCREEN", "GAME_OVER"}

(* if self.state == GameState.START_SCREEN: the guard of the selection keys *)
MenuOpen(st) == st = "START_SCREEN"

(* one KEYDOWN of a menu key taken from the queue; the block is guarded by
   the phase being START_SCREEN after the K_SPACE block has run *)
MenuKey(keys) ==
    /\ pc = "handle_events"
    /\ \E k \in keys :
         IF ~MenuOpen(state)
         THEN UNCHANGED config
         ELSE CASE k = "K_m" ->
                     /\ is_two_player' = ~is_two_player
                     /\ UNCHANGED <<ai_speed, current_difficulty, win_score>>
                [] k \in {"K_1", "K_2", "K_3"} ->
                     LET d == CASE k = "K_1" -> 1 [] k = "K_2" -> 2 [] k = "K_3" -> 3
                     IN /\ current_difficulty' = d
                        /\ ai_speed' = AI_DIFFICULTY[d]
                        /\ UNCHANGED <<is_two_player, win_score>>
                [] k \in {"K_PLUS", "K_EQUALS"} ->
                     /\ win_score' = IncrementWinScore(win_score)
                     /\ UNCHANGED <<ai_speed, current_difficulty, is_two_player>>
                [] k = "K_MINUS" ->
                     /\ win_score' = DecrementWinScore(win_score)
                     /\ UNCHANGED <<ai_speed, current_difficulty, is_two_player>>
                [] OTHER -> UNCHANGED config
    /\ UNCHANGED <<state, running, pc, ticks, paddles, ballvars, stats,
                   powervars, frame>>

(* the event queue is exhausted: handle_events returns True *)
EventsDone(maxT, maxT2) ==
    /\ pc = "handle_events"
    /\ AfterEvents(TRUE, state, maxT, maxT2)
    /\ UNCHANGED <<state, paddles, ballvars, stats, config, powervars, frame>>

(* the end of the loop body: 'while running' *)
LoopEnd == IF running THEN "handle_events" ELSE "exit"

(***************************************************************************)
(* move_player / move_right_player / move_ai                               *)
(***************************************************************************)
(* the two guarded steps of move_player and move_right_player: up, then down *)
MovePaddle(p, up, down) ==
    LET y1 == IF up /\ p.y > 0 THEN p.y - PADDLE_SPEED ELSE p.y
        y2 == IF down /\ y1 + p.height < WINDOW_HEIGHT THEN y1 + PADDLE_SPEED ELSE y1
    IN [p EXCEPT !.y = y2]

MovePlayer(held) ==
    /\ pc = "move_player"
    /\ \E k \in held :
         left_paddle' = MovePaddle(left_paddle, "K_w" \in k, "K_s" \in k)
    /\ pc' = "move_right"
    /\ frame' = [NoFrame EXCEPT !.last_hit = frame.last_hit]
    /\ UNCHANGED <<state, running, ticks, right_paddle, ballvars, stats,
                   config, powervars>>

MoveRightPlayer(held) ==
    /\ pc = "move_right"
    /\ is_two_player
    /\ \E k \in held :
         right_paddle' = MovePaddle(right_paddle, "K_UP" \in k, "K_DOWN" \in k)
    /\ pc' = "update_ball"
    /\ UNCHANGED <<state, running, ticks, left_paddle, ballvars, stats,
                   config, powervars, frame>>

(* the side whose SLOW_AI entry move_ai looks up *)
SlowAiSide == "right"

(* a move_ai slowed by the left side's SLOW_AI *)
Mut_AiCurrentSpeed(speed, active) ==
    IF active["left"]["SLOW_AI"] > 0 THEN Max(1, speed \div 2) ELSE speed

(* current_speed of move_ai *)
AiCurrentSpeed(speed, active) ==
    IF active[SlowAiSide]["SLOW_AI"] > 0 THEN Max(1, speed \div 2) ELSE speed

(* the signed step move_ai adds to right_paddle.y *)
AiStep(p, b, speed) ==
    LET paddle_center == p.y + p.height \div 2
        ball_center == b.y + BALL_SIZE \div 2
    IN IF paddle_center < ball_center /\ p.y + p.height < WINDOW_HEIGHT THEN speed
       ELSE IF paddle_center > ball_center /\ p.y > 0 THEN -speed
       ELSE 0

MoveAi ==
    /\ pc = "move_right"
    /\ ~is_two_player
    /\ LET step == AiStep(right_paddle, ball, AiCurrentSpeed(ai_speed, active_powerups))
       IN /\ right_paddle' = [right_paddle EXCEPT !.y = @ + step]
          /\ frame' = [frame EXCEPT !.ai_step = step, !.moved = TRUE]
    /\ pc' = "update_ball"
    /\ UNCHANGED <<state, running, ticks, left_paddle, ballvars, stats,
                   config, powervars>>

(***************************************************************************)
(* activate_powerup                                                        *)
(***************************************************************************)
(* min(PADDLE_HEIGHT + 30, int(PADDLE_HEIGHT * 1.5)) and int(PADDLE_HEIGHT * 1.3) *)
SpeedBoostHeight == Min(PADDLE_HEIGHT + 30, (PADDLE_HEIGHT * 15) \div 10)
BigPaddleHeight == (PADDLE_HEIGHT * 13) \div 10

(* int(v * 1.3), an integer number of pixels again *)
FastBall(v) == TruncDiv(v * 13, 10 * SCALE) * SCALE

(* the types whose collection ends with an entry in active_powerups *)
TimedTypes == PowerUpType

(* an activation that adds the new countdown to the one still running *)
Mut_activate_powerup(player, type, s, now) ==
    LET h == CASE type = "SPEED_BOOST" -> SpeedBoostHeight
               [] type = "BIG_PADDLE" -> BigPaddleHeight
               [] OTHER -> 0
        sized == type \in {"SPEED_BOOST", "BIG_PADDLE"}
        fast == type = "FAST_BALL"
    IN [s EXCEPT
          !.lh = IF sized /\ player = "left" THEN h ELSE @,
          !.rh = IF sized /\ player # "left" THEN h ELSE @,
          !.vx = IF fast THEN FastBall(@) ELSE @,
          !.vy = IF fast THEN FastBall(@) ELSE @,
          !.act = IF type \in TimedTypes
                  THEN [@ EXCEPT ![player][type] = @ + POWERUP_DURATION] ELSE @,
          !.at = IF type \in TimedTypes
                 THEN [@ EXCEPT ![player][type] = now] ELSE @]

(* s carries the fields activate_powerup may write: vx, vy (ball speed),
   lh, rh (paddle heights), act (active_powerups), at (activated_at) *)
activate_powerup(player, type, s, now) ==
    LET h == CASE type = "SPEED_BOOST" -> SpeedBoostHeight
               [] type = "BIG_PADDLE" -> BigPaddleHeight
               [] OTHER -> 0
        sized == type \in {"SPEED_BOOST", "BIG_PADDLE"}
        fast == type = "FAST_BALL"
    IN [s EXCEPT
          !.lh = IF sized /\ player = "left" THEN h ELSE @,
          !.rh = IF sized /\ player # "left" THEN h ELSE @,
          !.vx = IF fast THEN FastBall(@) ELSE @,
          !.vy = IF fast THEN FastBall(@) ELSE @,
          !.act = IF type \in TimedTypes
                  THEN [@ EXCEPT ![player][type] = POWERUP_DURATION] ELSE @,
          !.at = IF type \in TimedTypes
                 THEN [@ EXCEPT ![player][type] = now] ELSE @]

(***************************************************************************)
(* update_ball                                                             *)
(***************************************************************************)
(* ball.x += ball_speed_x; ball.y += ball_speed_y *)
Integrate(b, vx, vy) ==
    [x |-> TruncDiv(b.x * SCALE + vx, SCALE), y |-> TruncDiv(b.y * SCALE + vy, SCALE)]

(* the speed clamp: both components rescaled by MAX_BALL_SPEED / magnitude *)
ClampSpeed(vx, vy) ==
    LET m2 == vx * vx + vy * vy
        cap == MAX_BALL_SPEED * SCALE
    IN IF m2 > cap * cap
       THEN LET mag == SqrtCeil(m2)
            IN <<TruncDiv(vx * cap, mag), TruncDiv(vy * cap, mag)>>
       ELSE <<vx, vy>>

(* top/bottom boundary *)
WallCollision(y, vy) ==
    IF y <= 0
    THEN [y |-> 0, vy |-> Abs(vy), wall |-> "top"]
    ELSE IF y + BALL_SIZE >= WINDOW_HEIGHT
    THEN [y |-> WINDOW_HEIGHT - BALL_SIZE, vy |-> -Abs(vy), wall |-> "bottom"]
    ELSE [y |-> y, vy |-> vy, wall |-> "none"]

(* (hit_pos - 0.5) * 2 with hit_pos = (ball.y - paddle.y) / paddle.height *)
Spin(by, p) == TruncDiv((2 * (by - p.y) - p.height) * SCALE, p.height)

LeftCollision(bx, by, vx, p) == colliderect(BallRect(bx, by), LeftRect(p)) /\ vx < 0
RightCollision(bx, by, vx, p) == colliderect(BallRect(bx, by), RightRect(p)) /\ vx > 0

(* a bounce that leaves the ball where it is, inside the paddle *)
Mut_LeftBounce(s, p) ==
    [s EXCEPT !.vx = Abs(s.vx),
              !.vy = s.vy + Spin(s.y, p),
              !.rally = s.rally + 1,
              !.left_collision = TRUE]

(* ball.left = left_paddle.right, speed forced to the right, spin, rally *)
LeftBounce(s, p) ==
    [s EXCEPT !.x = LEFT_PADDLE_X + PADDLE_WIDTH,
              !.vx = Abs(s.vx),
              !.vy = s.vy + Spin(s.y, p),
              !.rally = s.rally + 1,
              !.left_collision = TRUE]

(* a bounce that forgets to turn the ball *)
Mut_RightBounce(s, p) ==
    [s EXCEPT !.x = RIGHT_PADDLE_X - BALL_SIZE,
              !.vy = s.vy + Spin(s.y, p),
              !.rally = s.rally + 1,
              !.right_collision = TRUE]

(* ball.right = right_paddle.left, speed forced to the left, spin, rally *)
RightBounce(s, p) ==
    [s EXCEPT !.x = RIGHT_PADDLE_X - BALL_SIZE,
              !.vx = -Abs(s.vx),
              !.vy = s.vy + Spin(s.y, p),
              !.rally = s.rally + 1,
              !.right_collision = TRUE]

(* the side the ball comes from *)
Mut_Collector(vx) == IF vx < 0 THEN "right" ELSE "left"

(* the side a power-up goes to: "left" if ball_speed_x < 0 else "right" *)
Collector(vx) == IF vx < 0 THEN "left" ELSE "right"

(* one overlapping power-up: activate it and set its collected flag *)
Collect(i, s, now) ==
    [activate_powerup(Collector(s.vx), s.ps[i].type, s, now)
        EXCEPT !.ps[i].collected = TRUE,
               !.got = Append(@, <<Collector(s.vx), s.ps[i].type,
                                   s.act[Collector(s.vx)][s.ps[i].type]>>)]

(* for powerup in self.powerups: collect the ones the ball overlaps, in
   list order *)
RECURSIVE CollectLoop(_, _, _)
CollectLoop(i, s, now) ==
    IF i > Len(s.ps) THEN s
    ELSE IF colliderect(BallRect(s.x, s.y), PowerUpRect(s.ps[i]))
    THEN CollectLoop(i + 1, Collect(i, s, now), now)
    ELSE CollectLoop(i + 1, s, now)

(* the two score tests *)
CrossedLeft(bx) == bx <= 0
CrossedRight(bx) == bx + BALL_SIZE >= WINDOW_WIDTH

(* a win test that waits for the target to be passed *)
Mut_WinReached(l, r, w) == l > w \/ r > w

(* the win test *)
WinReached(l, r, w) == l = w \/ r = w

(* the working state of one update_ball call: the ball, the fields a
   collected power-up may write, and what happened *)
Working(pos, v, w) ==
    [x |-> pos.x, y |-> w.y, vx |-> v[1], vy |-> w.vy, wall |-> w.wall,
     rally |-> rally_count, left_collision |-> FALSE, right_collision |-> FALSE,
     lh |-> left_paddle.height, rh |-> right_paddle.height,
     act |-> active_powerups, at |-> activated_at, ps |-> powerups, got |-> <<>>]

(* integration, then the clamp, then the boundary test *)
Moved(pos, v) == Working(pos, v, WallCollision(pos.y, v[2]))

AfterLeft(s) ==
    IF LeftCollision(s.x, s.y, s.vx, left_paddle) THEN LeftBounce(s, left_paddle)
    ELSE s

AfterRight(s) ==
    IF RightCollision(s.x, s.y, s.vx, right_paddle) THEN RightBounce(s, right_paddle)
    ELSE s

(* everything update_ball does before the score tests *)
BallPhysics ==
    CollectLoop(1, AfterRight(AfterLeft(
        Moved(Integrate(ball, ball_speed_x, ball_speed_y),
              ClampSpeed(ball_speed_x, ball_speed_y)))), ticks)

(* the record overwritten by the rally just ended *)
Mut_LongestRally(longest, rally) == rally

(* self.longest_rally = max(self.longest_rally, self.rally_count) *)
LongestRally(longest, rally) == Max(longest, rally)

(* a rally-win counter that misses a point *)
Mut_RalliesWon(won, scored) == won

(* self.right_rallies_won += 1 and self.left_rallies_won += 1, next to the
   score they count *)
RalliesWon(won, scored) == won + (IF scored THEN 1 ELSE 0)

(* the 'Score updates' and the win test, p being the state they start from,
   first and second the outcome of the two tests *)
Scored(p, first, second) ==
    /\ IF first \/ second
       THEN /\ ball' = CentredBall
            /\ \E sx \in Signs : ball_speed_x' = ServeSpeed(sx)
            /\ \E sy \in Signs : ball_speed_y' = ServeSpeed(sy)
       ELSE /\ ball' = [x |-> p.x, y |-> p.y]
            /\ ball_speed_x' = p.vx
            /\ ball_speed_y' = p.vy
    /\ right_score' = right_score + (IF first THEN 1 ELSE 0)
    /\ right_rallies_won' = RalliesWon(right_rallies_won, first)
    /\ left_score' = left_score + (IF second THEN 1 ELSE 0)
    /\ left_rallies_won' = RalliesWon(left_rallies_won, second)
    /\ rally_count' = IF first \/ second THEN 0 ELSE p.rally
    /\ longest_rally' = IF first \/ second THEN LongestRally(longest_rally, p.rally)
                        ELSE longest_rally
    /\ state' = IF WinReached(left_score', right_score', win_score) THEN "GAME_OVER"
                ELSE state
    /\ left_paddle' = [left_paddle EXCEPT !.height = p.lh]
    /\ right_paddle' = [right_paddle EXCEPT !.height = p.rh]
    /\ active_powerups' = p.act
    /\ activated_at' = p.at
    /\ powerups' = p.ps
    /\ frame' = [frame EXCEPT !.wall = p.wall,
                              !.left_collision = p.left_collision,
                              !.right_collision = p.right_collision,
                              !.collected = p.got,
                              !.last_hit = (IF first \/ second THEN "none"
                                            ELSE IF p.right_collision THEN "right"
                                            ELSE IF p.left_collision THEN "left"
                                            ELSE @),
                              !.scored = (IF first THEN <<"right">> ELSE <<>>)
                                         \o (IF second THEN <<"left">> ELSE <<>>)]

(* a second test that is a copy of the first one, on the ball as it was *)
Mut_ScoreTests(p, first) == Scored(p, first, CrossedLeft(p.x))

(* the second test reads the ball the first one may have put back to the centre *)
ScoreTests(p, first) ==
    Scored(p, first, CrossedRight(IF first THEN CentredBall.x ELSE p.x))

UpdateBall ==
    /\ pc = "update_ball"
    /\ ScoreTests(BallPhysics, CrossedLeft(BallPhysics.x))
    /\ pc' = "spawn_powerup"
    /\ UNCHANGED <<running, ticks, config>>

(***************************************************************************)
(* spawn_powerup / update_powerups                                         *)
(***************************************************************************)
(* random.random() >= POWERUP_SPAWN_CHANCE, or a power-up of a random type at
   the ball; the trial succeeds only in the frames of spawnTicks *)
SpawnPowerup(spawnTicks) ==
    /\ pc = "spawn_powerup"
    /\ \/ UNCHANGED powerups
       \/ /\ ticks \in spawnTicks
          /\ \E t \in PowerUpType :
               powerups' = Append(powerups,
                   [x |-> ball.x, y |-> ball.y, type |-> t, collected |-> FALSE])
    /\ pc' = "update_powerups"
    /\ UNCHANGED <<state, running, ticks, paddles, ballvars, stats, config,
                   active_powerups, activated_at, frame>>

(* the countdown of one entry: frames - 1, the entry deleted at <= 0 *)
Countdown(n) == IF n = 0 THEN 0 ELSE IF n - 1 <= 0 THEN 0 ELSE n - 1

(* the types whose countdown reaches zero for side s in this call *)
Expired(act, s) == {t \in PowerUpType : act[s][t] > 0 /\ Countdown(act[s][t]) = 0}

(* the types whose expiry puts the paddle back to PADDLE_HEIGHT *)
RevertTypes == {"SPEED_BOOST", "BIG_PADDLE"}

(* a stack-aware expiry: the height stays while another size effect of the
   side is running *)
Mut_Reverted(p, act, s) ==
    IF /\ Expired(act, s) \cap RevertTypes # {}
       /\ \A t \in RevertTypes : Countdown(act[s][t]) = 0
    THEN [p EXCEPT !.height = PADDLE_HEIGHT]
    ELSE p

Reverted(p, act, s) ==
    IF Expired(act, s) \cap RevertTypes # {} THEN [p EXCEPT !.height = PADDLE_HEIGHT]
    ELSE p

(* PowerUp.update *)
PowerUpUpdate(p) ==
    [p EXCEPT !.y = p.y + POWERUP_SPEED,
              !.collected = p.collected \/ p.y + POWERUP_SPEED > WINDOW_HEIGHT]

RECURSIVE FallAndSweep(_)
FallAndSweep(ps) ==
    IF ps = <<>> THEN <<>>
    ELSE LET q == PowerUpUpdate(Head(ps))
         IN IF q.collected THEN FallAndSweep(Tail(ps))
            ELSE <<q>> \o FallAndSweep(Tail(ps))

UpdatePowerups ==
    /\ pc = "update_powerups"
    /\ active_powerups' = [s \in Side |-> [t \in PowerUpType |->
                              Countdown(active_powerups[s][t])]]
    /\ left_paddle' = Reverted(left_paddle, active_powerups, "left")
    /\ right_paddle' = Reverted(right_paddle, active_powerups, "right")
    /\ powerups' = FallAndSweep(powerups)
    /\ pc' = LoopEnd
    /\ UNCHANGED <<state, running, ticks, ballvars, stats, config, activated_at,
                   frame>>

(***************************************************************************)
(* Specifications                                                          *)
(***************************************************************************)
(* the snapshots pygame.key.get_pressed() may return *)
HeldKeys == {{}, {"K_w"}, {"K_s"}, {"K_UP"}, {"K_DOWN"}}
Idle == {{}}

(* the keys of the start screen the player may press *)
ModeKeys == {"K_m"}
MatchKeys == {"K_m", "K_MINUS"}
PowerKeys == {"K_m", "K_1"}

(* the frames in which spawn_powerup's trial may succeed *)
FirstFrame == {1}

NextWith(maxT, maxT2, spawnTicks, menu, held) ==
    \/ QuitEvent(maxT, maxT2)
    \/ SpaceKey
    \/ MenuKey(menu)
    \/ EventsDone(maxT, maxT2)
    \/ MovePlayer(held)
    \/ MoveRightPlayer(held)
    \/ MoveAi
    \/ UpdateBall
    \/ SpawnPowerup(spawnTicks)
    \/ UpdatePowerups

(* one game with both paddles steered, a power-up spawning in the first frame *)
Next == NextWith(MaxTicks, MaxTwoPlayerTicks, FirstFrame, ModeKeys, HeldKeys)
Spec == Init /\ [][Next]_vars

(* matches to any target from 5 down to 1, nobody steering *)
NextMatch == NextWith(MaxMatchTicks, MaxMatchTicks, FirstFrame, MatchKeys, Idle)
SpecMatch == Init /\ [][NextMatch]_vars

(* the first frames of a game, a power-up spawning in every frame but the last *)
NextPower == NextWith(MaxPowerTicks, MaxPowerTicks, 1 .. MaxPowerTicks - 1, PowerKeys, Idle)
SpecPower == Init /\ [][NextPower]_vars

(* a game long enough for the effect of a first-frame power-up to run out *)
NextLong == NextWith(MaxLongTicks, MaxTwoPlayerTicks, FirstFrame, ModeKeys, Idle)
SpecLong == Init /\ [][NextLong]_vars

(* the keys a player holds who takes the vertical pace off the ball: the paddle's
   top edge is kept 4 px below the top of a falling ball and its bottom edge at
   the top of a rising ball, so that every hit adds spin against ball_speed_y *)
AimKeys(p, upKey, downKey) ==
    LET want == ball.y + (IF ball_speed_y > 0 THEN 4 ELSE -PADDLE_HEIGHT)
    IN IF p.y > want THEN {upKey}
       ELSE IF p.y < want THEN {downKey}
       ELSE {}
Damping == {AimKeys(left_paddle, "K_w", "K_s") \cup AimKeys(right_paddle, "K_UP", "K_DOWN")}

(* a long rally of two players who both damp the ball *)
NextRally == NextWith(MaxSoloTicks, MaxRallyTicks, FirstFrame, ModeKeys, Damping)
SpecRally == Init /\ [][NextRally]_vars

(* every selection key of the start screen *)
MenuKeys == {"K_m", "K_1", "K_2", "K_3", "K_PLUS", "K_EQUALS", "K_MINUS"}

(* any sequence of selections, then the first frame of the game *)
NextMenu == NextWith(MaxMenuTicks, MaxMenuTicks, FirstFrame, MenuKeys, Idle)
SpecMenu == Init /\ [][NextMenu]_vars

(* the frames in which two power-ups in a row may spawn *)
FirstFrames == {1, 2}

(* a game long enough for the effects of two power-ups to run out *)
NextExpiry == NextWith(MaxLongTicks, MaxTwoPlayerTicks, FirstFrames, ModeKeys, Idle)
SpecExpiry == Init /\ [][NextExpiry]_vars

(* the frame before the ball served to the right meets the right paddle *)
BounceFrames == {MaxBounceTicks - 2}

(* a power-up spawning where the ball is about to be returned *)
NextBounce == NextWith(MaxBounceTicks, MaxTwoPlayerTicks, BounceFrames, ModeKeys, Idle)
SpecBounce == Init /\ [][NextBounce]_vars

(* a series of points between two idle players, to any target from 5 down to 1 *)
NextSeries == NextWith(MaxSoloTicks, MaxSeriesTicks, FirstFrame, MatchKeys, Idle)
SpecSeries == Init /\ [][NextSeries]_vars

(* the keys a player holds who puts vertical pace on the ball: the paddle's top
   edge is kept level with the top of a rising ball and 60 px above the top of
   a falling ball, so that every hit adds spin along ball_speed_y *)
DriveKeys(p, upKey, downKey) ==
    LET want == ball.y - (IF ball_speed_y < 0 THEN 0 ELSE 60)
    IN IF p.y > want THEN {upKey}
       ELSE IF p.y < want THEN {downKey}
       ELSE {}
Driving == {DriveKeys(left_paddle, "K_w", "K_s") \cup DriveKeys(right_paddle, "K_UP", "K_DOWN")}

(* the frame of the fourth return of a driven ball *)
DriveFrames == {MaxDriveTicks - 2}

(* a rally of two players who both drive the ball, a power-up spawning where
   the fourth return leaves the ball *)
NextDrive == NextWith(MaxSoloTicks, MaxDriveTicks, DriveFrames, ModeKeys, Driving)
SpecDrive == Init /\ [][NextDrive]_vars

(* the mode key and the difficulty keys *)
AiKeys == {"K_m", "K_1", "K_2", "K_3"}

(* the AI of each difficulty following the ball of the first serve *)
NextAi == NextWith(MaxAiTicks, MaxTwoPlayerTicks, FirstFrame, AiKeys, Idle)
SpecAi == Init /\ [][NextAi]_vars

(***************************************************************************)
(* Properties                                                              *)
(***************************************************************************)
(* update_ball has returned *)
BallUpdated == pc = "spawn_powerup"
(* the loop body is over: the state at the end of a frame *)
EndOfFrame == pc \in {"handle_events", "exit"}

SpeedSquared == ball_speed_x * ball_speed_x + ball_speed_y * ball_speed_y
SpeedCap == (MAX_BALL_SPEED * SCALE) * (MAX_BALL_SPEED * SCALE)

(* C1: when update_ball has returned, the ball's speed sqrt(vx^2 + vy^2) is at
   most MAX_BALL_SPEED, whatever was hit or collected in that frame. *)
C1_SpeedWithinMax == BallUpdated => SpeedSquared <= SpeedCap

(* C2: an effect activated in frame T is still there at the end of every frame
   before T + POWERUP_DURATION and gone at the end of frame T + POWERUP_DURATION,
   and with a paddle-size effect gone the paddle is back at its base height. *)
C2_EffectLastsDuration ==
    EndOfFrame =>
      \A s \in Side, t \in PowerUpType :
        activated_at[s][t] > 0 =>
          /\ ticks < activated_at[s][t] + POWERUP_DURATION => active_powerups[s][t] > 0
          /\ ticks >= activated_at[s][t] + POWERUP_DURATION =>
               /\ active_powerups[s][t] = 0
               /\ t \in RevertTypes =>
                    (IF s = "left" THEN left_paddle ELSE right_paddle).height
                       = PADDLE_HEIGHT

(* the state reset_game leaves *)
Fresh ==
    /\ left_score = 0 /\ right_score = 0
    /\ rally_count = 0 /\ longest_rally = 0
    /\ left_rallies_won = 0 /\ right_rallies_won = 0
    /\ powerups = <<>> /\ active_powerups = NoEffects
    /\ ball = CentredBall

(* C3: the phase changes only START_SCREEN -> PLAYING (start command, reset),
   PLAYING -> PAUSED and PAUSED -> PLAYING (pause command), PLAYING ->
   GAME_OVER (in update_ball, a score equal to the win target) and GAME_OVER ->
   PLAYING (restart command, reset); START_SCREEN is never entered again. *)
C3_PhaseTransitions ==
    [][state' # state =>
         \/ /\ state = "START_SCREEN" /\ state' = "PLAYING"
            /\ pc = "handle_events" /\ Fresh'
         \/ /\ state = "PLAYING" /\ state' = "PAUSED"
            /\ pc = "handle_events" /\ UNCHANGED <<ballvars, stats, paddles, powervars>>
         \/ /\ state = "PAUSED" /\ state' = "PLAYING"
            /\ pc = "handle_events" /\ UNCHANGED <<ballvars, stats, paddles, powervars>>
         \/ /\ state = "PLAYING" /\ state' = "GAME_OVER"
            /\ pc = "update_ball"
            /\ left_score' = win_score \/ right_score' = win_score
         \/ /\ state = "GAME_OVER" /\ state' = "PLAYING"
            /\ pc = "handle_events" /\ Fresh']_vars

(* a match was won, restarted and is back in PLAYING *)
C3_Witness ==
    /\ state = "PLAYING" /\ pc = "handle_events"
    /\ frame.scored # <<>> /\ left_score = 0 /\ right_score = 0

(* C4: the step in which a score becomes equal to the win target ends in
   GAME_OVER, and from then on the ball is not moved by its velocity: no
   simulation step runs and the ball stays where the score put it until a
   restart command. *)
C4_WinEndsTheMatch ==
    [][/\ (left_score' # left_score \/ right_score' # right_score)
          /\ (left_score' = win_score \/ right_score' = win_score)
          => state' = "GAME_OVER"
       /\ state = "GAME_OVER" =>
            /\ pc \notin {"move_player", "move_right", "update_ball"}
            /\ \/ UNCHANGED ballvars
               \/ pc = "handle_events" /\ state' = "PLAYING" /\ ball' = CentredBall]_vars

(* the match is over and a later frame has begun *)
C4_Witness ==
    /\ state = "GAME_OVER" /\ pc = "handle_events" /\ running
    /\ win_score \in {left_score, right_score}

(* C5: each paddle lies inside the playfield: 0 <= y and y + height <=
   WINDOW_HEIGHT, for the left and for the right paddle. *)
C5_PaddlesInField ==
    /\ 0 <= left_paddle.y /\ left_paddle.y + left_paddle.height <= WINDOW_HEIGHT
    /\ 0 <= right_paddle.y /\ right_paddle.y + right_paddle.height <= WINDOW_HEIGHT

(* C6: move_ai steps by max(1, ai_speed // 2) exactly while the left side holds
   a SLOW_AI effect, and by ai_speed otherwise, a SLOW_AI of the right side
   changing nothing. *)
C6_SlowAiFromLeftOnly ==
    pc = "update_ball" /\ frame.moved /\ frame.ai_step # 0 =>
       Abs(frame.ai_step) = IF active_powerups["left"]["SLOW_AI"] > 0
                            THEN Max(1, ai_speed \div 2) ELSE ai_speed

(* C7: when update_ball has registered a paddle collision, the ball moves away
   from that paddle and no longer overlaps it, its edge on the paddle's face. *)
C7_BounceLeavesPaddle ==
    BallUpdated =>
      /\ frame.left_collision =>
           /\ ball_speed_x > 0
           /\ ball.x = LEFT_PADDLE_X + PADDLE_WIDTH
           /\ ~colliderect(BallRect(ball.x, ball.y), LeftRect(left_paddle))
      /\ frame.right_collision =>
           /\ ball_speed_x < 0
           /\ ball.x + BALL_SIZE = RIGHT_PADDLE_X
           /\ ~colliderect(BallRect(ball.x, ball.y), RightRect(right_paddle))

(* the steered left paddle has just hit the ball off its centre *)
C7_Witness ==
    BallUpdated /\ frame.left_collision /\ ball_speed_y % SCALE # 0

(* C8: when update_ball has met the top boundary and no point was scored, the
   ball is flush with the top and ball_speed_y >= 0 at its return; when it has
   met the bottom boundary the ball is flush with the bottom and ball_speed_y
   <= 0. *)
C8_WallTurnsTheBall ==
    BallUpdated /\ frame.scored = <<>> =>
      /\ frame.wall = "top" => ball.y = 0 /\ ball_speed_y >= 0
      /\ frame.wall = "bottom" =>
           ball.y + BALL_SIZE = WINDOW_HEIGHT /\ ball_speed_y <= 0

(* C9: in one frame at most one of the two scores goes up, and by exactly 1;
   outside update_ball no score goes up. *)
C9_OneScorePerFrame ==
    [][IF pc = "update_ball"
       THEN \/ left_score' = left_score /\ right_score' = right_score
            \/ left_score' = left_score /\ right_score' = right_score + 1
            \/ left_score' = left_score + 1 /\ right_score' = right_score
       ELSE left_score' <= left_score /\ right_score' <= right_score]_vars

(* the left side has scored one point, the right side none, the match goes on *)
C9_Witness ==
    /\ BallUpdated /\ state = "PLAYING"
    /\ frame.scored = <<"left">> /\ left_score = 1 /\ right_score = 0

(* the ball as update_ball moves it before any test *)
Integrated == Integrate(ball, ball_speed_x, ball_speed_y)
Served ==
    /\ ball = CentredBall
    /\ Abs(ball_speed_x) = BALL_INITIAL_SPEED * SCALE
    /\ Abs(ball_speed_y) = BALL_INITIAL_SPEED * SCALE

(* C10: a ball moved to ball.left <= 0 gives right_score and right_rallies_won
   one more, a ball moved to ball.right >= WINDOW_WIDTH gives left_score and
   left_rallies_won one more, nothing else changes a score in update_ball, and
   after either the ball is at the centre with speed (+-8, +-8). *)
C10_ScoreEvent ==
    [][pc = "update_ball" =>
         /\ CrossedLeft(Integrated.x) =>
              /\ right_score' = right_score + 1
              /\ right_rallies_won' = right_rallies_won + 1
              /\ left_score' = left_score /\ left_rallies_won' = left_rallies_won
              /\ Served'
         /\ CrossedRight(Integrated.x) =>
              /\ left_score' = left_score + 1
              /\ left_rallies_won' = left_rallies_won + 1
              /\ right_score' = right_score /\ right_rallies_won' = right_rallies_won
              /\ Served'
         /\ ~CrossedLeft(Integrated.x) /\ ~CrossedRight(Integrated.x) =>
              UNCHANGED <<left_score, right_score, left_rallies_won, right_rallies_won>>]_vars

(* a ball sped up by a FAST_BALL has crossed the right boundary and is served
   again, at the initial speed, with two different signs *)
C10_Witness ==
    /\ BallUpdated /\ frame.scored = <<"left">>
    /\ \E s \in Side : activated_at[s]["FAST_BALL"] > 0
    /\ ball_speed_x = -ball_speed_y /\ Served

(* a point is scored by the step *)
ScoreEvent == left_score' # left_score \/ right_score' # right_score
(* reset_game is run by the step *)
MatchReset == pc = "handle_events" /\ SpaceResets(state) /\ state' = "PLAYING"

(* C11: right after a score event rally_count is 0 and longest_rally is the
   larger of its old value and the rally just ended; longest_rally changes
   only at score events, where it never decreases, and at a reset of the
   match. *)
C11_RallyRecord ==
    [][/\ ScoreEvent /\ ~MatchReset =>
            /\ rally_count' = 0
            /\ longest_rally' = (IF rally_count > longest_rally THEN rally_count
                                 ELSE longest_rally)
       /\ longest_rally' # longest_rally =>
            \/ ScoreEvent /\ pc = "update_ball" /\ longest_rally' > longest_rally
            \/ MatchReset /\ longest_rally' = 0]_vars

(* a rally with at least one return has ended and set the record *)
C11_Witness ==
    /\ BallUpdated /\ frame.scored # <<>>
    /\ rally_count = 0 /\ longest_rally > 0

(* C12: a start or restart command handled in START_SCREEN or GAME_OVER leaves
   both scores, the rally count, the longest rally and both rally-win counts
   at 0, no live power-up, no active effect, the ball at the field centre
   with speed (+-8, +-8), and the phase PLAYING. *)
C12_ResetClearsTheMatch ==
    [][pc = "handle_events" /\ state \in {"START_SCREEN", "GAME_OVER"} /\ state' # state =>
         /\ state' = "PLAYING"
         /\ left_score' = 0 /\ right_score' = 0
         /\ rally_count' = 0 /\ longest_rally' = 0
         /\ left_rallies_won' = 0 /\ right_rallies_won' = 0
         /\ powerups' = <<>>
         /\ \A s \in Side, t \in PowerUpType : active_powerups'[s][t] = 0
         /\ ball' = CentredBall
         /\ Abs(ball_speed_x') = BALL_INITIAL_SPEED * SCALE
         /\ Abs(ball_speed_y') = BALL_INITIAL_SPEED * SCALE]_vars

(* a match that was lost with an effect still running has been restarted *)
C12_Witness ==
    /\ state = "PLAYING" /\ pc = "handle_events" /\ ticks > 0
    /\ frame.scored = <<"right">> /\ right_score = 0
    /\ active_powerups = NoEffects /\ left_paddle.height = BigPaddleHeight

(* C13: a loop iteration in PAUSED or GAME_OVER that handles no restart command
   runs no simulation step and changes neither the ball, its speed, the
   paddles, the scores, the rally counters, the live power-ups nor any effect
   countdown; pausing and resuming change none of them either. *)
C13_FrozenOutsidePlaying ==
    [][/\ pc = "handle_events"
       /\ state \in {"PAUSED", "GAME_OVER"} \/ state' = "PAUSED"
       /\ ~MatchReset
       => /\ UNCHANGED <<ball, ball_speed_x, ball_speed_y, left_paddle, right_paddle,
                         left_score, right_score, rally_count, longest_rally,
                         left_rallies_won, right_rallies_won, powerups,
                         active_powerups, ticks>>
          /\ pc' \in {"handle_events", "exit"}]_vars

(* a game paused in the middle of a rally, an effect counting down *)
C13_Witness ==
    /\ state = "PAUSED" /\ ticks > 1 /\ ball # CentredBall
    /\ \E s \in Side, t \in PowerUpType : active_powerups[s][t] > 0

(* C14: the mode, the difficulty preset, the AI speed and the win target change
   only when a command is handled in START_SCREEN; nothing handled or run in
   PLAYING, PAUSED or GAME_OVER changes them. *)
C14_ConfigOnlyOnStartScreen ==
    [][<<is_two_player, current_difficulty, ai_speed, win_score>>'
         # <<is_two_player, current_difficulty, ai_speed, win_score>>
       => pc = "handle_events" /\ state = "START_SCREEN"]_vars

(* a match configured on the start screen is over, the selection keys still
   being pressed *)
C14_Witness ==
    /\ state = "GAME_OVER" /\ pc = "handle_events"
    /\ is_two_player /\ win_score = DEFAULT_WIN_SCORE - 4

(* C15: win_score stays within [1, 20] under any sequence of increment and
   decrement commands, and a command that changes it changes it by exactly 1
   (so an increment at 20 and a decrement at 1 change nothing). *)
C15_WinScoreClamped ==
    /\ [](win_score >= 1 /\ win_score <= 20)
    /\ [][win_score' # win_score =>
            /\ win_score' - win_score \in {-1, 1}
            /\ win_score' >= 1 /\ win_score' <= 20]_vars

(* the upper end of the range has been selected on the start screen *)
C15_Witness ==
    /\ state = "START_SCREEN"
    /\ win_score = 20

(* the height of the paddle of side s *)
Height(s) == IF s = "left" THEN left_paddle.height ELSE right_paddle.height

(* C16: when the countdown of a SPEED_BOOST or BIG_PADDLE effect of a side
   reaches zero, the side's paddle height is PADDLE_HEIGHT even if the other
   size effect of the side is still running; the running countdown goes on,
   and no step but a collection in update_ball makes a paddle taller. *)
C16_LastExpiryWins ==
    [][/\ pc = "update_powerups" =>
            \A s \in Side :
               /\ (\E t \in RevertTypes :
                      active_powerups[s][t] > 0 /\ active_powerups'[s][t] = 0)
                    => Height(s)' = PADDLE_HEIGHT
               /\ \A t \in PowerUpType :
                    active_powerups[s][t] > 1 =>
                       active_powerups'[s][t] = active_powerups[s][t] - 1
       /\ (\E s \in Side : Height(s)' > Height(s)) => pc = "update_ball"]_vars

(* SPEED_BOOST has run out on a side whose BIG_PADDLE is still counting down:
   the paddle is at its base height *)
C16_Witness ==
    /\ EndOfFrame
    /\ \E s \in Side :
         /\ activated_at[s]["SPEED_BOOST"] > 0 /\ active_powerups[s]["SPEED_BOOST"] = 0
         /\ active_powerups[s]["BIG_PADDLE"] > 0
         /\ Height(s) = PADDLE_HEIGHT

(* C17: a power-up the ball overlaps in update_ball is collected once: by side
   left if ball_speed_x < 0 after the paddle bounces of that call and by side
   right otherwise, a timed type getting the side's full countdown; it is
   flagged in the list when update_ball returns and out of the list at the
   end of the frame. *)
C17_CollectedOnceByHeading ==
    /\ BallUpdated =>
         /\ Len(frame.collected)
              = Cardinality({i \in 1 .. Len(powerups) : powerups[i].collected})
         /\ frame.scored = <<>> =>
              \A i \in 1 .. Len(frame.collected) :
                 /\ frame.collected[i][1]
                      = (IF ball_speed_x < 0 THEN "left" ELSE "right")
                 /\ frame.collected[i][2] # "FAST_BALL" =>
                      active_powerups[frame.collected[i][1]][frame.collected[i][2]]
                         = POWERUP_DURATION
    /\ EndOfFrame => \A i \in 1 .. Len(powerups) : ~powerups[i].collected

(* the ball has been returned by the right paddle and has collected a power-up
   in the same call *)
C17_Witness ==
    /\ BallUpdated /\ frame.right_collision
    /\ frame.collected # <<>> /\ frame.collected[1][1] = "left"

(* C18: once handle_events has returned False for a QUIT event or K_ESCAPE, the
   loop is over: no statement of the loop body is left to run, whatever the
   phase. *)
C18_QuitEndsTheLoop == ~running => pc = "exit"

(* C19: in one-player mode move_ai changes right_paddle.y by +s when the
   paddle's centre is above the ball's centre and the paddle's bottom is
   inside the field, by -s when the centre is below the ball's centre and the
   paddle's top is inside the field, and by 0 otherwise, s being ai_speed, or
   max(1, ai_speed // 2) while the right side holds a SLOW_AI effect; the step
   is never directed away from the ball's centre. *)
C19_AiStep ==
    [][pc = "move_right" /\ ~is_two_player =>
         LET s == IF active_powerups["right"]["SLOW_AI"] > 0
                  THEN (IF ai_speed \div 2 > 1 THEN ai_speed \div 2 ELSE 1)
                  ELSE ai_speed
             centre == right_paddle.y + right_paddle.height \div 2
             target == ball.y + BALL_SIZE \div 2
             down == centre < target
                       /\ right_paddle.y + right_paddle.height < WINDOW_HEIGHT
             up == centre > target /\ right_paddle.y > 0
             step == right_paddle'.y - right_paddle.y
         IN /\ down => step = s
            /\ up => step = -s
            /\ ~down /\ ~up => step = 0
            /\ step > 0 => centre < target
            /\ step < 0 => centre > target
            /\ right_paddle'.height = right_paddle.height]_vars

(* the easy AI, slowed by a SLOW_AI of its own side, has moved one pixel *)
C19_Witness ==
    /\ pc = "update_ball" /\ frame.moved
    /\ active_powerups["right"]["SLOW_AI"] > 0
    /\ ai_speed = AI_DIFFICULTY[1] /\ frame.ai_step \in {-1, 1}

(* C20: a collected FAST_BALL leaves no (side, FAST_BALL) entry in
   active_powerups, a collected power-up of any other type leaves the (side,
   type) entry at POWERUP_DURATION. *)
C20_FastBallHasNoEntry ==
    /\ \A s \in Side : active_powerups[s]["FAST_BALL"] = 0
    /\ BallUpdated =>
         \A i \in 1 .. Len(frame.collected) :
            frame.collected[i][2] # "FAST_BALL" =>
               active_powerups[frame.collected[i][1]][frame.collected[i][2]]
                  = POWERUP_DURATION

(* C21: a paddle registers a hit only while the ball moves toward it, and never
   twice in a row: the hit before it in the same rally, if any, was on the
   other paddle; rally_count goes up by at most 1 per frame. *)
C21_HitsAlternate ==
    [][/\ pc = "update_ball" =>
            /\ frame'.left_collision =>
                 ball_speed_x < 0 /\ frame.last_hit # "left"
            /\ frame'.right_collision =>
                 ball_speed_x > 0 /\ frame.last_hit # "right"
            /\ ~(frame'.left_collision /\ frame'.right_collision)
       /\ rally_count' <= rally_count + 1]_vars

(* the left paddle has returned the ball for the second time in a rally *)
C21_Witness ==
    /\ BallUpdated /\ frame.left_collision
    /\ frame.last_hit = "left" /\ rally_count >= 3

(* C22: each paddle's height is 80, 104 or 110, and it is PADDLE_HEIGHT
   whenever neither SPEED_BOOST nor BIG_PADDLE is active for the paddle's
   side, in particular after reset_game has cleared the active effects. *)
C22_HeightFollowsEffects ==
    \A s \in Side :
       /\ Height(s) \in {PADDLE_HEIGHT, BigPaddleHeight, SpeedBoostHeight}
       /\ (\A t \in RevertTypes : active_powerups[s][t] = 0)
            => Height(s) = PADDLE_HEIGHT

(* C23: in GAME_OVER exactly one of the two scores equals win_score and the
   other is below it; in PLAYING or PAUSED, between two frames, both scores
   are below win_score. *)
C23_UniqueWinner ==
    /\ state = "GAME_OVER" =>
         \/ left_score = win_score /\ right_score < win_score
         \/ right_score = win_score /\ left_score < win_score
    /\ state \in {"PLAYING", "PAUSED"} /\ EndOfFrame =>
         left_score < win_score /\ right_score < win_score

(* a match to 2 has been won against a player who had scored as well *)
C23_Witness ==
    /\ state = "GAME_OVER" /\ win_score = 2
    /\ left_score + right_score = 3

(* C25: left_rallies_won equals left_score and right_rallies_won equals
   right_score in every state. *)
C25_RalliesWonAreScores ==
    /\ left_rallies_won = left_score
    /\ right_rallies_won = right_score

(* both sides have won a rally of the match that is on *)
C25_Witness ==
    /\ state = "PLAYING" /\ EndOfFrame
    /\ left_rallies_won >= 1 /\ right_rallies_won >= 1

(* C26: active_powerups holds one countdown per (side, type), never above
   POWERUP_DURATION; a type collected again by the side on which it is still
   running has its countdown put back to POWERUP_DURATION, not added to; at
   the end of a frame every countdown is below POWERUP_DURATION, and one that
   has reached 0 is no entry any more. *)
C26_CountdownRestarts ==
    /\ \A s \in Side : \A t \in PowerUpType :
          /\ active_powerups[s][t] \in 0 .. POWERUP_DURATION
          /\ EndOfFrame => active_powerups[s][t] < POWERUP_DURATION
    /\ BallUpdated =>
         \A i \in 1 .. Len(frame.collected) :
            frame.collected[i][3] > 0 =>
               active_powerups[frame.collected[i][1]][frame.collected[i][2]]
                  = POWERUP_DURATION

(* a power-up of a type whose countdown was still running on the collecting
   side has been collected *)
C26_Witness ==
    /\ BallUpdated
    /\ \E i \in 1 .. Len(frame.collected) :
          /\ frame.collected[i][3] = POWERUP_DURATION - 1
          /\ frame.collected[i][2] = "BIG_PADDLE"

(* the power-up i was spawned at the ball in the frame before *)
AtBall(i) ==
    /\ ~powerups[i].collected
    /\ powerups[i].x = ball.x /\ powerups[i].y = ball.y + POWERUP_SPEED

(* C24: a power-up spawned at the ball in one PLAYING frame is collected by
   update_ball in the next one whenever that call moves the ball with
   |ball_speed_x| < 15 and |ball_speed_y - 2| < 15 and puts it back at no wall
   and no paddle; the side that collects it is the one the ball is heading
   toward. *)
C24_CollectedOneFrameLater ==
    [][pc = "update_ball" =>
         \A i \in 1 .. Len(powerups) :
            /\ AtBall(i)
            /\ frame'.wall = "none"
            /\ ~frame'.left_collision /\ ~frame'.right_collision
            /\ Abs(ball_speed_x) < 15 * SCALE
            /\ Abs(ball_speed_y - POWERUP_SPEED * SCALE) < 15 * SCALE
            => /\ powerups'[i].collected
               /\ \E k \in 1 .. Len(frame'.collected) :
                     /\ frame'.collected[k][1] = Collector(ball_speed_x)
                     /\ frame'.collected[k][2] = powerups[i].type]_vars

=============================================================================
